---- MODULE Spec2Model ----
(***************************************************************************)
(* SyntaxTree<T> of include/filter_parser_util.h: a filter expression over *)
(* integer labels is tokenized (parse_logic_expression), converted to      *)
(* postfix (convert2rpn), built into a tree of Or/And/Not/Label nodes      *)
(* (rpn2tree) by the constructor, and then evaluated against label         *)
(* collections (check).                                                    *)
(*                                                                         *)
(* A string is a sequence of one-character strings; a token is a string.   *)
(* A stack is a sequence whose top is its last element.                    *)
(***************************************************************************)
EXTENDS Integers, Sequences, FiniteSets, TLC

VARIABLES expr, pc, tokens, rpn, root, outcome, labels, result

vars == <<expr, pc, tokens, rpn, root, outcome, labels, result>>

---------------------------------------------------------------------------
(* Bounds of the model *)

\* longest raw expression string, in characters
MaxLen == 4

\* most tokens of an expression derived from the grammar
MaxTokens == 7

\* longest label collection handed to check
MaxLabels == 3

\* most tokens of a sub-expression A or B of the De Morgan texts
MaxSub == 3

---------------------------------------------------------------------------
(* Characters *)

Chars == {" ", "\t", "|", "&", "!", "(", ")", "1", "2", "$"}

DigitChars == <<"0", "1", "2", "3", "4", "5", "6", "7", "8", "9">>

\* c == ' ' || c == '\t'
IsSpace(c) == c = " " \/ c = "\t"

\* c == '|' || c == '&' || c == '!' || c == '(' || c == ')'
IsOperChar(c) == c = "|" \/ c = "&" \/ c = "!" \/ c = "(" \/ c = ")"

\* c >= '0' && c <= '9'
IsDigit(c) == \E i \in 1..Len(DigitChars) : DigitChars[i] = c

---------------------------------------------------------------------------
(* parse_logic_expression: the tokenizer *)

\* CharClass with the final else branch skipping the character
CharClass_skipping(c) ==
    IF IsSpace(c) THEN "space"
    ELSE IF IsOperChar(c) THEN "oper"
    ELSE IF IsDigit(c) THEN "digit"
    ELSE "space"

\* the branch of the loop body a character takes
CharClass(c) ==
    IF IsSpace(c) THEN "space"
    ELSE IF IsOperChar(c) THEN "oper"
    ELSE IF IsDigit(c) THEN "digit"
    ELSE "incorrect"

\* if (!cur_token.empty()) tokens.push_back(cur_token)
Flush(toks, cur) == IF cur # <<>> THEN Append(toks, cur) ELSE toks

\* the loop over the characters; error is the logic_error "Token is incorrect"
RECURSIVE TokenizeFrom(_, _, _, _)
TokenizeFrom(s, i, toks, cur) ==
    IF i > Len(s)
    THEN [error |-> FALSE, tokens |-> Flush(toks, cur)]
    ELSE LET c == s[i]
             class == CharClass(c)
         IN
         CASE class = "space" -> TokenizeFrom(s, i + 1, toks, cur)
           [] class = "oper"  -> TokenizeFrom(s, i + 1, Append(Flush(toks, cur), <<c>>), <<>>)
           [] class = "digit" -> TokenizeFrom(s, i + 1, toks, Append(cur, c))
           [] OTHER           -> [error |-> TRUE, tokens |-> <<>>]

parse_logic_expression(s) == TokenizeFrom(s, 1, <<>>, <<>>)

---------------------------------------------------------------------------
(* convert2rpn: infix to postfix *)

is_operator(token) ==
    token \in {<<"|">>, <<"&">>, <<"!">>, <<"(">>, <<")">>}

precedence(op) ==
    CASE op = <<"|">> -> 1
      [] op = <<"&">> -> 2
      [] op = <<"!">> -> 3

\* higher_precedence with the comparison turned round
higher_precedence_reversed(op1, op2) == precedence(op1) <= precedence(op2)

higher_precedence(op1, op2) == precedence(op1) >= precedence(op2)

Top(st) == st[Len(st)]

Pop(st) == SubSeq(st, 1, Len(st) - 1)

\* CloseParen leaving the stack alone when it holds no "("
CloseParen_ignoring(out, st) ==
    LET RECURSIVE Pops(_, _)
        Pops(o, t) ==
            IF t # <<>> /\ Top(t) # <<"(">>
            THEN Pops(Append(o, Top(t)), Pop(t))
            ELSE [rpn |-> o, stack |-> IF t # <<>> THEN Pop(t) ELSE t]
    IN IF \E i \in 1..Len(st) : st[i] = <<"(">>
       THEN Pops(out, st)
       ELSE [rpn |-> out, stack |-> st]

\* token == ")": pop into the output down to a "(" or the bottom of the stack
RECURSIVE CloseParen(_, _)
CloseParen(out, st) ==
    IF st # <<>> /\ Top(st) # <<"(">>
    THEN CloseParen(Append(out, Top(st)), Pop(st))
    ELSE IF st # <<>> /\ Top(st) = <<"(">>
         THEN [rpn |-> out, stack |-> Pop(st)]
         ELSE [rpn |-> out, stack |-> st]

\* token is "|", "&" or "!": pop the operators that bind at least as tightly
RECURSIVE PushOperator(_, _, _)
PushOperator(out, st, token) ==
    IF st # <<>> /\ Top(st) # <<"(">> /\ higher_precedence(Top(st), token)
    THEN PushOperator(Append(out, Top(st)), Pop(st), token)
    ELSE [rpn |-> out, stack |-> Append(st, token)]

\* the end of the input: the whole operator stack goes to the output
RECURSIVE DrainStack(_, _)
DrainStack(out, st) ==
    IF st # <<>>
    THEN DrainStack(Append(out, Top(st)), Pop(st))
    ELSE out

RECURSIVE ConvertFrom(_, _, _, _)
ConvertFrom(toks, i, out, st) ==
    IF i > Len(toks)
    THEN DrainStack(out, st)
    ELSE LET token == toks[i] IN
         IF ~is_operator(token)
         THEN ConvertFrom(toks, i + 1, Append(out, token), st)
         ELSE IF token = <<"(">>
         THEN ConvertFrom(toks, i + 1, out, Append(st, token))
         ELSE IF token = <<")">>
         THEN LET n == CloseParen(out, st) IN ConvertFrom(toks, i + 1, n.rpn, n.stack)
         ELSE LET n == PushOperator(out, st, token) IN ConvertFrom(toks, i + 1, n.rpn, n.stack)

convert2rpn(oper_tokens) == ConvertFrom(oper_tokens, 1, <<>>, <<>>)

---------------------------------------------------------------------------
(* The nodes *)

NoNode == [kind |-> "null"]

\* what a read of the top of an empty std::stack leaves in a tree
GarbageNode == [kind |-> "garbage"]

LabelNode(v) == [kind |-> "Label", label |-> v]

NotNode(n) == [kind |-> "Not", sub |-> n]

AndNode(l, r) == [kind |-> "And", left |-> l, right |-> r]

OrNode(l, r) == [kind |-> "Or", left |-> l, right |-> r]

\* LabelCheck with a scan that stops one element early
LabelCheck_shortscan(label, ls) == \E i \in 1..(Len(ls) - 1) : ls[i] = label

\* std::find(labels->begin(), labels->end(), _label) != labels->end()
LabelCheck(label, ls) == \E i \in 1..Len(ls) : ls[i] = label

\* OrNode::check: the right child is evaluated only when the left is false
OrCheck(l, r) == IF l THEN TRUE ELSE r

\* AndNode::check: the right child is evaluated only when the left is true
AndCheck(l, r) == IF ~l THEN FALSE ELSE r

NotCheck(s) == ~s

RECURSIVE NodeCheck(_, _)
NodeCheck(n, ls) ==
    CASE n.kind = "Label" -> LabelCheck(n.label, ls)
      [] n.kind = "Not"   -> NotCheck(NodeCheck(n.sub, ls))
      [] n.kind = "And"   -> AndCheck(NodeCheck(n.left, ls), NodeCheck(n.right, ls))
      [] n.kind = "Or"    -> OrCheck(NodeCheck(n.left, ls), NodeCheck(n.right, ls))

---------------------------------------------------------------------------
(* rpn2tree: postfix to tree *)

\* std::stoll of a token of decimal digits
RECURSIVE stoll(_)
stoll(tok) ==
    IF tok = <<>> THEN 0
    ELSE 10 * stoll(Pop(tok))
         + (CHOOSE d \in 0..9 : DigitChars[d + 1] = Top(tok))

\* "|" and "&": rhs is the top, lhs the one under it
BinaryNode(op, lhs, rhs) == IF op = <<"|">> THEN OrNode(lhs, rhs) ELSE AndNode(lhs, rhs)

\* FinishTree refusing only more than one node
FinishTree_lenient(st) ==
    IF Len(st) > 1
    THEN [status |-> "ExtraLabel", root |-> NoNode]
    ELSE [status |-> "ok", root |-> IF st = <<>> THEN NoNode ELSE Top(st)]

\* the test after the loop: anything but one node left is "Extra label"
FinishTree(st) ==
    IF Len(st) # 1
    THEN [status |-> "ExtraLabel", root |-> NoNode]
    ELSE [status |-> "ok", root |-> Top(st)]

\* status "UB": top() and pop() of an empty std::stack, which the code
\* does not guard; what follows is undefined
RECURSIVE BuildFrom(_, _, _)
BuildFrom(ops, i, st) ==
    IF i > Len(ops)
    THEN FinishTree(st)
    ELSE LET op == ops[i] IN
         IF ~is_operator(op)
         THEN BuildFrom(ops, i + 1, Append(st, LabelNode(stoll(op))))
         ELSE IF op = <<"|">> \/ op = <<"&">>
         THEN IF Len(st) < 2
              THEN [status |-> "UB", root |-> NoNode]
              ELSE BuildFrom(ops, i + 1,
                             Append(Pop(Pop(st)), BinaryNode(op, Top(Pop(st)), Top(st))))
         ELSE IF Len(st) < 1
              THEN [status |-> "UB", root |-> NoNode]
              ELSE BuildFrom(ops, i + 1, Append(Pop(st), NotNode(Top(st))))

rpn2tree(ops) == BuildFrom(ops, 1, <<>>)

\* the constructor: the three stages in a row
SyntaxTree(str_logic_expr) ==
    LET t == parse_logic_expression(str_logic_expr) IN
    IF t.error
    THEN [status |-> "TokenIncorrect", root |-> NoNode]
    ELSE rpn2tree(convert2rpn(t.tokens))

---------------------------------------------------------------------------
(* The inputs *)

RECURSIVE StringsUpTo(_)
StringsUpTo(n) ==
    IF n = 0 THEN {<<>>}
    ELSE LET S == StringsUpTo(n - 1) IN
         S \cup {Append(s, c) : s \in {t \in S : Len(t) = n - 1}, c \in Chars}

RawExprs == StringsUpTo(MaxLen)

LabelVals == {1, 2, 3}

RECURSIVE SeqsUpTo(_)
SeqsUpTo(n) ==
    IF n = 0 THEN {<<>>}
    ELSE LET S == SeqsUpTo(n - 1) IN
         S \cup {Append(s, v) : s \in {t \in S : Len(t) = n - 1}, v \in LabelVals}

LabelSeqs == SeqsUpTo(MaxLabels)

---------------------------------------------------------------------------
(* The grammar of the expressions, as a generator of derivations:          *)
(*   expr := term ('|' term)*   term := factor ('&' factor)*               *)
(*   factor := '!' factor | '(' expr ')' | LITERAL                         *)
(* A derivation is its text and what it denotes, a formula over literals.  *)

Literals == {[txt |-> <<"1">>, val |-> 1],
             [txt |-> <<"2">>, val |-> 2],
             [txt |-> <<"3">>, val |-> 3]}

Lit(v) == [op |-> "lit", val |-> v]

Neg(f) == [op |-> "not", arg |-> f]

Conj(f, g) == [op |-> "and", lhs |-> f, rhs |-> g]

Disj(f, g) == [op |-> "or", lhs |-> f, rhs |-> g]

\* the value of a formula when exactly the labels of the set S are present
RECURSIVE Denotes(_, _)
Denotes(f, S) ==
    CASE f.op = "lit" -> f.val \in S
      [] f.op = "not" -> ~Denotes(f.arg, S)
      [] f.op = "and" -> Denotes(f.lhs, S) /\ Denotes(f.rhs, S)
      [] f.op = "or"  -> Denotes(f.lhs, S) \/ Denotes(f.rhs, S)

\* the derivations of exactly n tokens from factor, term and expr
RECURSIVE Derive(_)
Derive(n) ==
    LET F == IF n = 1
             THEN {[txt |-> l.txt, den |-> Lit(l.val)] : l \in Literals}
             ELSE {[txt |-> <<"!">> \o d.txt, den |-> Neg(d.den)] : d \in Derive(n - 1).F}
                  \cup (IF n >= 3
                        THEN {[txt |-> <<"(">> \o d.txt \o <<")">>, den |-> d.den] :
                                d \in Derive(n - 2).E}
                        ELSE {})
        T == F \cup UNION {{[txt |-> t.txt \o <<"&">> \o f.txt, den |-> Conj(t.den, f.den)] :
                               t \in Derive(k).T, f \in Derive(n - 1 - k).F} : k \in 1..(n - 2)}
        E == T \cup UNION {{[txt |-> e.txt \o <<"|">> \o t.txt, den |-> Disj(e.den, t.den)] :
                               e \in Derive(k).E, t \in Derive(n - 1 - k).T} : k \in 1..(n - 2)}
    IN [F |-> F, T |-> T, E |-> E]

ExprsUpTo(n) == UNION {Derive(k).E : k \in 1..n}

GrammarExprs == ExprsUpTo(MaxTokens)

\* the derivation of a text of the grammar (the grammar is unambiguous)
Derivation(e) == CHOOSE d \in GrammarExprs : d.txt = e

Range(s) == {s[i] : i \in 1..Len(s)}

\* the texts "!(A&B)" and "!A|!B" of two sub-expressions A and B
DMLeft(a, b) == <<"!", "(">> \o a \o <<"&">> \o b \o <<")">>

DMRight(a, b) == <<"!">> \o a \o <<"|", "!">> \o b

DMPairs == {[l |-> DMLeft(a.txt, b.txt), r |-> DMRight(a.txt, b.txt)] :
              a \in ExprsUpTo(MaxSub), b \in ExprsUpTo(MaxSub)}

---------------------------------------------------------------------------
(* The constructor, stage by stage, and check *)

UBOutcomes == {"crash", "ExtraLabel", "garbage"}

InitWith(S) ==
    /\ expr \in S
    /\ pc = "new"
    /\ tokens = <<>>
    /\ rpn = <<>>
    /\ root = NoNode
    /\ outcome = "none"
    /\ labels = <<>>
    /\ result = FALSE

Init == InitWith(RawExprs)

\* auto tokens = parse_logic_expression(str_logic_expr);
Tokenize ==
    /\ pc = "new"
    /\ LET t == parse_logic_expression(expr) IN
       IF t.error
       THEN /\ pc' = "failed"
            /\ outcome' = "TokenIncorrect"
            /\ tokens' = tokens
       ELSE /\ pc' = "tokenized"
            /\ outcome' = outcome
            /\ tokens' = t.tokens
    /\ UNCHANGED <<expr, rpn, root, labels, result>>

\* auto rpn = convert2rpn(std::move(tokens));
Convert ==
    /\ pc = "tokenized"
    /\ rpn' = convert2rpn(tokens)
    /\ pc' = "converted"
    /\ UNCHANGED <<expr, tokens, root, outcome, labels, result>>

\* root = rpn2tree(std::move(rpn));
Build ==
    /\ pc = "converted"
    /\ LET t == rpn2tree(rpn) IN
       \E ub \in UBOutcomes :
          LET o == IF t.status = "UB" THEN ub ELSE t.status IN
          /\ outcome' = o
          /\ pc' = CASE o = "ok" -> "built"
                     [] o = "garbage" -> "built"
                     [] o = "crash" -> "crashed"
                     [] OTHER -> "failed"
          /\ root' = CASE o = "ok" -> t.root
                       [] o = "garbage" -> GarbageNode
                       [] OTHER -> NoNode
    /\ UNCHANGED <<expr, tokens, rpn, labels, result>>

\* bool check(const std::vector<T> *labels) on a built tree
Check ==
    /\ pc = "built"
    /\ outcome = "ok"
    /\ \E ls \in LabelSeqs :
          /\ labels' = ls
          /\ result' = NodeCheck(root, ls)
    /\ pc' = "checked"
    /\ UNCHANGED <<expr, tokens, rpn, root, outcome>>

\* check on a tree that holds a dangling child: any answer, or none, whatever
\* the labels are
CheckGarbage ==
    /\ pc = "built"
    /\ outcome = "garbage"
    /\ \E r \in BOOLEAN, dies \in BOOLEAN :
          /\ result' = r
          /\ pc' = IF dies THEN "crashed" ELSE "checked"
    /\ UNCHANGED <<expr, tokens, rpn, root, outcome, labels>>

\* check has returned to its caller, which may call it again: the tree is as
\* it was, the argument and the result of the call are the caller's
Return ==
    /\ pc = "checked"
    /\ pc' = "built"
    /\ labels' = <<>>
    /\ result' = FALSE
    /\ UNCHANGED <<expr, tokens, rpn, root, outcome>>

Next == Tokenize \/ Convert \/ Build \/ Check \/ CheckGarbage \/ Return

Spec == Init /\ [][Next]_vars

\* the expressions of the grammar only
InitGrammar == InitWith({d.txt : d \in GrammarExprs})

SpecGrammar == InitGrammar /\ [][Next]_vars

\* the two texts of De Morgan's law for every pair of sub-expressions
InitDeMorgan == InitWith({p.l : p \in DMPairs} \cup {p.r : p \in DMPairs})

SpecDeMorgan == InitDeMorgan /\ [][Next]_vars

---------------------------------------------------------------------------
(* The claims *)

\* the constructor has returned, thrown or died
Finished == pc \in {"built", "checked", "failed", "crashed"}

\* a predicate object exists
Constructed == pc \in {"built", "checked"}

\* C1: every expression of the grammar (also one with "!!") constructs, and
\* check returns what the grammar's parse of it denotes.
C1_GrammarAccepted ==
    /\ Finished => outcome = "ok"
    /\ pc = "checked" => result = Denotes(Derivation(expr).den, Range(labels))

\* the five shapes of C2 over all literals a, b, c, each with what it is
\* to denote
PrecedenceCases ==
    UNION {{[txt |-> a.txt \o <<"|">> \o b.txt \o <<"&">> \o c.txt,
             den |-> Disj(Lit(a.val), Conj(Lit(b.val), Lit(c.val)))],
            [txt |-> a.txt \o <<"&">> \o b.txt \o <<"|">> \o c.txt,
             den |-> Disj(Conj(Lit(a.val), Lit(b.val)), Lit(c.val))],
            [txt |-> <<"!">> \o a.txt \o <<"&">> \o b.txt,
             den |-> Conj(Neg(Lit(a.val)), Lit(b.val))],
            [txt |-> <<"!">> \o a.txt \o <<"|">> \o b.txt,
             den |-> Disj(Neg(Lit(a.val)), Lit(b.val))],
            [txt |-> <<"(">> \o a.txt \o <<"|">> \o b.txt \o <<")", "&">> \o c.txt,
             den |-> Conj(Disj(Lit(a.val), Lit(b.val)), Lit(c.val))]} :
           a \in Literals, b \in Literals, c \in Literals}

\* C2: "|" binds weaker than "&", "&" weaker than "!", and parentheses
\* override: a|b&c = a|(b&c), a&b|c = (a&b)|c, !a&b = (!a)&b, !a|b = (!a)|b,
\* (a|b)&c = (a|b)&c, for all literals a, b, c and all label collections.
C2_Precedence ==
    \A k \in PrecedenceCases :
       expr = k.txt =>
          /\ Finished => outcome = "ok"
          /\ pc = "checked" => result = Denotes(k.den, Range(labels))

\* "1|2&3" checked against [2,3]: true, by its "&" term
C2_Witness ==
    /\ pc = "checked"
    /\ expr = <<"1", "|", "2", "&", "3">>
    /\ labels = <<2, 3>>
    /\ result = TRUE

\* digits, then spaces or tabs, then digits, and nothing else
TwoLiterals(s) ==
    \E i \in 1..Len(s), j \in 1..Len(s) :
       /\ i < j /\ j < Len(s)
       /\ \A k \in 1..i : s[k] \in Range(DigitChars)
       /\ \A k \in (i + 1)..j : s[k] \in {" ", "\t"}
       /\ \A k \in (j + 1)..Len(s) : s[k] \in Range(DigitChars)

\* C3: two literals separated by whitespace alone are two tokens, and the
\* construction fails with "Extra label"; no predicate object is produced.
C3_TwoLiteralsRejected ==
    TwoLiterals(expr) =>
       /\ pc # "new" => Len(tokens) = 2
       /\ Finished => (pc = "failed" /\ outcome = "ExtraLabel" /\ root = NoNode)

\* the builder meets an operator with too few nodes on its stack
Underflows(ops) == rpn2tree(ops).status = "UB"

\* C4: an operator met with too few operands on the node stack makes the
\* construction fail with a StackUnderflow error.
C4_StackUnderflow ==
    (Finished /\ Underflows(rpn)) => (pc = "failed" /\ outcome = "StackUnderflow")

\* no character but spaces and tabs
NoTokens(s) == \A i \in 1..Len(s) : s[i] \in {" ", "\t"}

\* C5: an expression without tokens fails with an error, and no predicate
\* object (so none with a null root) is produced for check to be called on.
C5_EmptyRejected ==
    NoTokens(expr) =>
       /\ ~Constructed /\ pc # "crashed"
       /\ root = NoNode
       /\ pc = "failed" => outcome = "ExtraLabel"
       /\ Finished => pc = "failed"

\* a whitespace-only expression has been refused
C5_Witness ==
    /\ NoTokens(expr)
    /\ Len(expr) >= 2
    /\ pc = "failed"
    /\ outcome = "ExtraLabel"

\* some character is no space, tab, operator, parenthesis or digit
Malformed(s) ==
    \E i \in 1..Len(s) :
       s[i] \notin ({" ", "\t", "|", "&", "!", "(", ")"} \cup Range(DigitChars))

\* C6: an expression with such a character anywhere fails in the tokenizer
\* with "Token is incorrect", before any postfix sequence or node exists.
C6_MalformedToken ==
    (Malformed(expr) /\ pc # "new") =>
       /\ pc = "failed"
       /\ outcome = "TokenIncorrect"
       /\ tokens = <<>> /\ rpn = <<>> /\ root = NoNode

\* "1 $" and one more character, refused
C6_Witness ==
    /\ Len(expr) = 4
    /\ SubSeq(expr, 1, 3) = <<"1", " ", "$">>
    /\ pc = "failed"
    /\ outcome = "TokenIncorrect"

\* the other text of a De Morgan pair, constructed and checked
SameAs(other) ==
    LET t == SyntaxTree(other) IN
    /\ Finished => t.status = "ok"
    /\ outcome = "ok" /\ pc = "checked" => result = NodeCheck(t.root, labels)

\* C7: for all sub-expressions A and B, the texts "!(A&B)" and "!A|!B" both
\* construct and check to the same value on every label collection.
C7_DeMorgan ==
    \A p \in DMPairs :
       /\ expr \in {p.l, p.r} /\ Finished => outcome = "ok"
       /\ expr = p.l => SameAs(p.r)
       /\ expr = p.r => SameAs(p.l)

\* both children of every And and Or evaluated, a label true iff in the set
RECURSIVE Reference(_, _)
Reference(n, S) ==
    CASE n.kind = "Label" -> n.label \in S
      [] n.kind = "Not"   -> ~Reference(n.sub, S)
      [] n.kind = "And"   -> LET l == Reference(n.left, S)
                                 r == Reference(n.right, S)
                             IN {l, r} = {TRUE}
      [] n.kind = "Or"    -> LET l == Reference(n.left, S)
                                 r == Reference(n.right, S)
                             IN TRUE \in {l, r}

\* C8: check on a built tree returns the value of the evaluator that does
\* not short-circuit, which depends on the set of the labels alone.
C8_CheckIsReference ==
    (pc = "checked" /\ outcome = "ok") => result = Reference(root, Range(labels))

\* an And whose left child is false, checked with a label given twice
C8_Witness ==
    /\ pc = "checked" /\ outcome = "ok"
    /\ root.kind = "And"
    /\ ~NodeCheck(root.left, labels)
    /\ Len(labels) = 3 /\ Cardinality(Range(labels)) = 2

\* the ")" tokens met while no "(" is open
RECURSIVE UnmatchedFrom(_, _, _)
UnmatchedFrom(toks, i, open) ==
    IF i > Len(toks) THEN 0
    ELSE IF toks[i] = <<"(">> THEN UnmatchedFrom(toks, i + 1, open + 1)
    ELSE IF toks[i] = <<")">>
         THEN IF open = 0 THEN 1 + UnmatchedFrom(toks, i + 1, 0)
                          ELSE UnmatchedFrom(toks, i + 1, open - 1)
    ELSE UnmatchedFrom(toks, i + 1, open)

Unmatched(toks) == UnmatchedFrom(toks, 1, 0)

OpenParens(k) == [i \in 1..k |-> <<"(">>]

\* C9: a ")" without a "(" is no error and never reaches the postfix output;
\* the postfix sequence the converter returns is that of the expression with
\* as many "(" put in front of it as it has unmatched ")".
C9_UnmatchedClose ==
    pc = "converted" =>
       /\ \A i \in 1..Len(rpn) : rpn[i] # <<")">>
       /\ rpn = convert2rpn(OpenParens(Unmatched(tokens)) \o tokens)

\* "1&2)": the ")" pops the "&"
C9_Witness ==
    /\ pc = "converted"
    /\ tokens = <<<<"1">>, <<"&">>, <<"2">>, <<")">>>>
    /\ rpn = <<<<"1">>, <<"2">>, <<"&">>>>

RECURSIVE Nodes(_, _)
Nodes(n, kind) ==
    (IF n.kind = kind THEN 1 ELSE 0)
    + CASE n.kind = "Label" -> 0
        [] n.kind = "Not"   -> Nodes(n.sub, kind)
        [] OTHER            -> Nodes(n.left, kind) + Nodes(n.right, kind)

Occurs(s, c) == Cardinality({i \in 1..Len(s) : s[i] = c})

\* C10: a constructed tree has one Not node for each "!", one And node for
\* each "&" and one Or node for each "|" of the expression: parentheses,
\* also an unmatched "(", produce no node.
C10_ParenthesesNoNode ==
    (Constructed /\ outcome = "ok") =>
       /\ Nodes(root, "Not") = Occurs(expr, "!")
       /\ Nodes(root, "And") = Occurs(expr, "&")
       /\ Nodes(root, "Or") = Occurs(expr, "|")

====
